---------------------------- MODULE Spec2Model ----------------------------
(***************************************************************************)
(* Model of the retrieval + answer post-processing pipeline of the 红楼RAG  *)
(* application: HongLouRAG.retrieve / HongLouRAG.generate                  *)
(* (src/step3_rag_engine.py) and clean_answer / main (src/app.py).         *)
(*                                                                         *)
(* A Python str is modelled as the sequence of its Unicode code points, so *)
(* '【回答】' is <<12304, 22238, 31572, 12305>>.  Indices are 1-based here   *)
(* and 0-based in the source.                                              *)
(***************************************************************************)
EXTENDS Integers, Sequences, FiniteSets, TLC

VARIABLES
    text,          \* SpecClean: the raw text handed to clean_answer
    once,          \* SpecClean: clean_answer(text)
    twice,         \* SpecClean: clean_answer(clean_answer(text))
    cstage,        \* SpecClean: "raw" -> "once" -> "twice"
    docs,          \* SpecRetrieve: the ranked candidates of similarity_search
    unique_docs,   \* SpecRetrieve: what retrieve returns for them
    rstage,        \* SpecRetrieve: "search" -> "done"
    messages,      \* Spec: st.session_state.messages, the history of turns
    pc,            \* Spec: "idle", or "generating" inside a submitted run
    user_input,    \* Spec: the question of the run that is generating
    result,        \* Spec: what rag.generate returned to the last run
    shown,         \* Spec: the bubbles of the history view on the page
    export_text,   \* Spec: the text offered for download on the page
    tex_files,     \* SpecCorpus: the *.tex files extract_honglou finds, sorted
    parsed,        \* SpecCorpus: how many of them the loop has parsed
    all_documents, \* SpecCorpus: extract_honglou's all_documents
    output_file,   \* SpecCorpus: the lines extract_honglou wrote
    estage,        \* SpecCorpus: "parsing" -> "written" or "raised"
    jsonl,         \* SpecCorpus: the lines of the file load_data reads
    read,          \* SpecCorpus: how many of them the loop has read
    documents,     \* SpecCorpus: load_data's documents
    lstage,        \* SpecCorpus: "reading" -> "loaded" or "raised"
    gen_docs,      \* SpecPrompt: generate's docs, what retrieve returned
    gen_query,     \* SpecPrompt: generate's query
    rag_template,  \* SpecPrompt: the engine's self.rag_template
    gen_context,   \* SpecPrompt: generate's context
    gen_prompt,    \* SpecPrompt: generate's prompt
    gstage         \* SpecPrompt: "retrieved" -> "prompted"

cleanVars == <<text, once, twice, cstage>>

retrieveVars == <<docs, unique_docs, rstage>>

appVars == <<messages, pc, user_input, result, shown, export_text>>

corpusVars ==
    <<tex_files, parsed, all_documents, output_file, estage,
      jsonl, read, documents, lstage>>

promptVars ==
    <<gen_docs, gen_query, rag_template, gen_context, gen_prompt, gstage>>

vars ==
    <<text, once, twice, cstage, docs, unique_docs, rstage,
      messages, pc, user_input, result, shown, export_text,
      tex_files, parsed, all_documents, output_file, estage,
      jsonl, read, documents, lstage,
      gen_docs, gen_query, rag_template, gen_context, gen_prompt, gstage>>

-----------------------------------------------------------------------------
(* Bounds of the model                                                     *)

\* number of fragments a raw text under test is assembled from
MaxTokens == 4

\* number of candidates similarity_search returns to retrieve (its k)
MaxCands == 6

\* number of question/answer exchanges a history holds
MaxExchanges == 2

-----------------------------------------------------------------------------
(* Python str primitives on code-point sequences                           *)

Min(S) == CHOOSE x \in S : \A y \in S : x <= y

\* (the first conjunct only spares the comparison with all of S for most x)
Max(S) == CHOOSE x \in S : (x + 1) \notin S /\ \A y \in S : x >= y

\* str.isspace() / the regex class \s for one character
WhiteSpace ==
    {9, 10, 11, 12, 13, 28, 29, 30, 31, 32, 133, 160, 5760} \cup (8192..8202)
        \cup {8232, 8233, 8239, 8287, 12288}

IsSpace(c) == c \in WhiteSpace

\* the positions at which sub occurs in s (sub is never empty in this program)
Occurrences(s, sub) ==
    {i \in 1..(Len(s) - Len(sub) + 1) :
        s[i] = sub[1] /\ SubSeq(s, i, i + Len(sub) - 1) = sub}

\* `sub in s`
Contains(s, sub) == Occurrences(s, sub) # {}

\* s.index(sub), 1-based; only used where sub occurs
Index(s, sub) == Min(Occurrences(s, sub))

\* s[:n] for 0 <= n
Prefix(s, n) == SubSeq(s, 1, IF n < Len(s) THEN n ELSE Len(s))

\* s.strip(): from the first to the last character that is no whitespace
Strip(s) ==
    IF \A i \in 1..Len(s) : IsSpace(s[i]) THEN <<>>
    ELSE LET first == CHOOSE i \in 1..Len(s) :
                          ~IsSpace(s[i]) /\ \A j \in 1..(i - 1) : IsSpace(s[j])
             back == CHOOSE k \in 1..Len(s) :
                         /\ ~IsSpace(s[Len(s) + 1 - k])
                         /\ \A j \in 1..(k - 1) : IsSpace(s[Len(s) + 1 - j])
         IN  SubSeq(s, first, Len(s) + 1 - back)

\* s.replace(old, ''): occurrences are taken left to right, not overlapping
RECURSIVE Remove(_, _)
Remove(s, old) ==
    IF ~Contains(s, old) THEN s
    ELSE LET i == Index(s, old)
         IN  SubSeq(s, 1, i - 1) \o Remove(SubSeq(s, i + Len(old), Len(s)), old)

\* s.split(sep): the list of parts
RECURSIVE Split(_, _)
Split(s, sep) ==
    IF ~Contains(s, sep) THEN <<s>>
    ELSE LET i == Index(s, sep)
         IN  <<SubSeq(s, 1, i - 1)>> \o Split(SubSeq(s, i + Len(sep), Len(s)), sep)

\* s.endswith(suffix)
EndsWith(s, suffix) ==
    /\ Len(s) >= Len(suffix)
    /\ SubSeq(s, Len(s) - Len(suffix) + 1, Len(s)) = suffix

\* re.sub(r'\n\s*\n+', '\n\n', s).  A match starts at a newline and, \s* and
\* \n+ being greedy, runs to the last newline of the whitespace run it is in.
MatchStarts(s) ==
    {i \in 1..Len(s) :
        /\ s[i] = 10
        /\ \E j \in (i + 1)..Len(s) :
              s[j] = 10 /\ \A t \in i..j : IsSpace(s[t])}

MatchEnd(s, i) ==
    Max({j \in (i + 1)..Len(s) : s[j] = 10 /\ \A t \in i..j : IsSpace(s[t])})

\* (variant) the pattern \n\s*\n* : a single newline is a match too
RECURSIVE CollapseEveryNewline(_)
CollapseEveryNewline(s) ==
    IF 10 \notin {s[i] : i \in 1..Len(s)} THEN s
    ELSE LET i == Min({k \in 1..Len(s) : s[k] = 10})
             j == Max({k \in i..Len(s) :
                          s[k] = 10 /\ \A t \in i..k : IsSpace(s[t])})
         IN  SubSeq(s, 1, i - 1) \o <<10, 10>>
                 \o CollapseEveryNewline(SubSeq(s, j + 1, Len(s)))

RECURSIVE CollapseBlankLines(_)
CollapseBlankLines(s) ==
    IF MatchStarts(s) = {} THEN s
    ELSE LET i == Min(MatchStarts(s))
             j == MatchEnd(s, i)
         IN  SubSeq(s, 1, i - 1) \o <<10, 10>>
                 \o CollapseBlankLines(SubSeq(s, j + 1, Len(s)))

-----------------------------------------------------------------------------
(* clean_answer (src/app.py)                                               *)

MarkerAnswer == <<12304, 22238, 31572, 12305>>                \* 【回答】
MarkerEnd == <<12304, 32467, 26463, 12305>>                   \* 【结束】
MarkerExpert == <<19987, 23478, 35299, 35835, 65306>>         \* 专家解读：
MarkerTask == <<12304, 20219, 21153, 12305>>                  \* 【任务】
MarkerContext == <<12304, 26816, 32034, 36164, 26009, 12305>> \* 【检索资料】
MarkerQuestion == <<12304, 29992, 25143, 38382, 39064, 12305>> \* 【用户问题】
MarkerAnalysis == <<12304, 32418, 23398, 20998, 26512, 12305>> \* 【红学分析】

\* markers = ['【回答】', '【结束】', '专家解读：', '【任务】', '【检索资料】',
\*            '【用户问题】', '【红学分析】']
markers ==
    <<MarkerAnswer, MarkerEnd, MarkerExpert, MarkerTask, MarkerContext,
      MarkerQuestion, MarkerAnalysis>>

\* '以上'
SuffixAbove == <<20197, 19978>>

\* closing_phrases, in the order of the source
closing_phrases ==
    << \* 如有其他问题或需要进一步探讨，请随时告知。
       <<22914, 26377, 20854, 20182, 38382, 39064, 25110, 38656, 35201, 36827,
         19968, 27493, 25506, 35752, 65292, 35831, 38543, 26102, 21578, 30693,
         12290>>,
       \* 如需进一步探讨，请随时告知。
       <<22914, 38656, 36827, 19968, 27493, 25506, 35752, 65292, 35831, 38543,
         26102, 21578, 30693, 12290>>,
       \* 希望您满意。
       <<24076, 26395, 24744, 28385, 24847, 12290>>,
       \* 希望对您有所帮助。
       <<24076, 26395, 23545, 24744, 26377, 25152, 24110, 21161, 12290>>,
       \* 以上回答严格遵循了您的要求。
       <<20197, 19978, 22238, 31572, 20005, 26684, 36981, 24490, 20102, 24744,
         30340, 35201, 27714, 12290>> >>

\* for x in xs: s = s.replace(x, '').strip()
\* AfterEach(s, xs, k) lists the values s takes: before the loop and after
\* each of its first k rounds.
RECURSIVE AfterEach(_, _, _)
AfterEach(s, xs, k) ==
    IF k = 0 THEN <<s>>
    ELSE LET before == AfterEach(s, xs, k - 1)
         IN  Append(before, Strip(Remove(before[Len(before)], xs[k])))

RemoveEach(s, xs) == AfterEach(s, xs, Len(xs))[Len(xs) + 1]

\* (variant) cut at the last 【结束】, as rindex would
TruncateAtLastEnd(s) ==
    IF Contains(s, MarkerEnd)
    THEN Strip(Prefix(s, Max(Occurrences(s, MarkerEnd)) - 1))
    ELSE s

\* strategy 1: cut at the first 【结束】
TruncateAtEnd(s) ==
    IF Contains(s, MarkerEnd)
    THEN Strip(Prefix(s, Index(s, MarkerEnd) - 1))
    ELSE s

\* strategy 2: keep what follows the last 【回答】
KeepLastAnswer(s) ==
    IF Contains(s, MarkerAnswer)
    THEN LET parts == Split(s, MarkerAnswer)
         IN  IF Len(parts) > 1 THEN Strip(parts[Len(parts)]) ELSE s
    ELSE s

\* strategy 3: delete the structural markers, one after the other
StripMarkers(s) == RemoveEach(s, markers)

\* strategy 4: drop a trailing '以上'
StripSuffixAbove(s) ==
    IF EndsWith(s, SuffixAbove) THEN Strip(Prefix(s, Len(s) - 2)) ELSE s

\* strategy 5: delete the closing phrases, one after the other
StripClosing(s) == RemoveEach(s, closing_phrases)

\* strategies 3 to 5, the blank-line collapse and the final strip: the values
\* raw_answer takes, each step working on the result of the one before
CleanAfterAnswerStep(s) ==
    LET s3 == StripMarkers(s)
        s4 == StripSuffixAbove(s3)
        s5 == StripClosing(s4)
        s6 == CollapseBlankLines(s5)
        s7 == Strip(s6)
    IN  <<s3, s4, s5, s6, s7>>[5]

clean_answer(raw_answer) ==
    IF raw_answer = <<>> THEN raw_answer
    ELSE LET s1 == TruncateAtEnd(raw_answer)
             s2 == KeepLastAnswer(s1)
             s7 == CleanAfterAnswerStep(s2)
         IN  <<s1, s2, s7>>[3]

-----------------------------------------------------------------------------
(* HongLouRAG.retrieve (src/step3_rag_engine.py)                           *)
(* A Document is [page_content |-> str, metadata |-> dict]; a dict is a    *)
(* function whose domain is the set of keys it holds.                      *)

\* dict.get(key, default)
Get(d, key, default) == IF key \in DOMAIN d THEN d[key] ELSE default

\* the loop over docs: doc i is kept when its chapter is not yet in seen_chapters
RECURSIVE DedupLoop(_, _, _, _)
DedupLoop(ds, i, seen_chapters, kept) ==
    IF i > Len(ds) THEN kept
    ELSE LET ch == Get(ds[i].metadata, "chapter", 0)
         IN  IF ch \notin seen_chapters
             THEN DedupLoop(ds, i + 1, seen_chapters \cup {ch}, Append(kept, ds[i]))
             ELSE DedupLoop(ds, i + 1, seen_chapters, kept)

\* (variant) no chapter filter at all: the first three candidates
retrieveNoFilter(candidates) == Prefix(candidates, 3)

\* (variant) the slice [-3:] instead of [:3]
retrieveLastThree(candidates) ==
    LET kept == DedupLoop(candidates, 1, {}, <<>>)
    IN  SubSeq(kept, IF Len(kept) > 3 THEN Len(kept) - 2 ELSE 1, Len(kept))

\* retrieve, given what similarity_search(query, k) returned
retrieve(candidates) == Prefix(DedupLoop(candidates, 1, {}, <<>>), 3)

-----------------------------------------------------------------------------
(* HongLouRAG.generate (src/step3_rag_engine.py)                           *)

\* content = doc.page_content[:300]
ContextBudget == 300

\* self.rag_template up to {context}
TemplateHead ==
    <<20320, 26159, 19968, 20301, 31934, 36890, 12298, 32418, 27004, 26790,
      12299, 30340, 36164, 28145, 32418, 23398, 30740, 31350, 32773, 65292,
      25797, 38271, 25991, 26412, 32454, 35835, 19982, 33026, 30746, 25995,
      35780, 27880, 35299, 35835, 12290, 10, 10, 12304, 20219, 21153,
      12305, 22522, 20110, 20197, 19979, 26816, 32034, 21040, 30340, 21407,
      25991, 19982, 35780, 27880, 65292, 22238, 31572, 29992, 25143, 30340,
      38382, 39064, 12290, 22238, 31572, 35201, 27714, 65306, 10, 49, 46,
      32, 24517, 39035, 24341, 29992, 20855, 20307, 22238, 30446, 65288,
      22914, 34, 35265, 20110, 31532, 19977, 22238, 34, 65289, 10, 50, 46,
      32, 32467, 21512, 33026, 30746, 25995, 35780, 27880, 65288, 22914,
      26377, 65289, 20998, 26512, 28145, 23618, 21547, 20041, 10, 51, 46,
      32, 25351, 20986, 33402, 26415, 25163, 27861, 65288, 33609, 34503,
      28784, 32447, 12289, 26149, 31179, 31508, 27861, 31561, 65289, 10,
      10, 12304, 26816, 32034, 36164, 26009, 12305, 10>>

\* self.rag_template between {context} and {question}: \n\n【用户问题】\n
TemplateMiddle == <<10, 10, 12304, 29992, 25143, 38382, 39064, 12305, 10>>

\* self.rag_template after {question}: \n\n【红学分析】
TemplateTail == <<10, 10, 12304, 32418, 23398, 20998, 26512, 12305>>

TypeBody == <<27491, 25991>>          \* 正文
TypeComment == <<33026, 35780>>       \* 脂评
TitleUnknownEn == <<117, 110, 107, 110, 111, 119, 110>>   \* unknown
TitleUnknown == <<26410, 30693>>      \* 未知

\* str(i) for an integer i >= 0
RECURSIVE Decimal(_)
Decimal(i) ==
    IF i < 10 THEN <<48 + i>> ELSE Decimal(i \div 10) \o <<48 + (i % 10)>>

\* (variant) the slice [:301] instead of [:300]
ContextEntryOneMore(i, doc) ==
    LET source == Get(doc.metadata, "type", TypeBody)
        chapter == Get(doc.metadata, "chapter_title", TitleUnknownEn)
        content == Prefix(doc.page_content, ContextBudget + 1)
    IN  <<91>> \o Decimal(i) \o <<93, 32>> \o chapter \o <<65288>> \o source
            \o <<65289, 65306>> \o content \o <<46, 46, 46>>

\* f"[{i}] {chapter}（{source}）：{content}..."
ContextEntry(i, doc) ==
    LET source == Get(doc.metadata, "type", TypeBody)
        chapter == Get(doc.metadata, "chapter_title", TitleUnknownEn)
        content == Prefix(doc.page_content, ContextBudget)
    IN  <<91>> \o Decimal(i) \o <<93, 32>> \o chapter \o <<65288>> \o source
            \o <<65289, 65306>> \o content \o <<46, 46, 46>>

\* sep.join(parts)
RECURSIVE Join(_, _)
Join(parts, sep) ==
    IF parts = <<>> THEN <<>>
    ELSE IF Len(parts) = 1 THEN parts[1]
    ELSE parts[1] \o sep \o Join(Tail(parts), sep)

\* context = "\n\n".join(context_parts)
BuildContext(ds) ==
    Join([i \in 1..Len(ds) |-> ContextEntry(i, ds[i])], <<10, 10>>)

\* self.rag_template as _init_prompts sets it: the text before {context},
\* between {context} and {question}, and after {question}
RagTemplate == <<TemplateHead, TemplateMiddle, TemplateTail>>

\* template.format(context=c, question=q): the two fields are replaced by the
\* values, which are not read as format strings themselves
Format(template, c, q) == template[1] \o c \o template[2] \o q \o template[3]

\* prompt = self.rag_template.format(context=context, question=query)
BuildPrompt(context, query) == Format(RagTemplate, context, query)

\* what generate returns when the model call returns response
GenerateAnswer(query, candidates, response) ==
    LET ds == retrieve(candidates)
        context == BuildContext(ds)
        prompt == BuildPrompt(context, query)
    IN  [query |-> query,
         answer |-> IF Contains(response, prompt)
                    THEN Strip(Remove(response, prompt))
                    ELSE response,
         sources |-> ds,
         context |-> context]

\* what generate returns when the model call raises e: {"error": str(e)}
GenerateError(e) == [error |-> e]

-----------------------------------------------------------------------------
(* main (src/app.py): the session history and one script run per action    *)
(* The sidebar (character select box, slider, memory gauge) does not touch *)
(* the history and is left out; the select box is taken to stay at "".     *)

\* len(cleaned_answer) < 50
MinCleanLen == 50

\* len(raw_answer) > 100
MinRawLen == 100

\* raw_answer[:500]
FallbackLen == 500

\* 抱歉，查阅典籍时遇到阻碍：
ApologyPrefix ==
    <<25265, 27465, 65292, 26597, 38405, 20856, 31821, 26102, 36935, 21040,
      38459, 30861, 65306>>

\* str(KeyError('answer')), raised by result['answer'] on {"error": ...}
KeyErrorAnswer == <<39, 97, 110, 115, 119, 101, 114, 39>>

\* (variant) <= 50 instead of < 50
StoredContentAtMost(raw_answer) ==
    LET cleaned_answer == clean_answer(raw_answer)
    IN  IF Len(cleaned_answer) <= MinCleanLen /\ Len(raw_answer) > MinRawLen
        THEN Prefix(raw_answer, FallbackLen)
        ELSE cleaned_answer

\* the content stored for a generated answer
StoredContent(raw_answer) ==
    LET cleaned_answer == clean_answer(raw_answer)
    IN  IF Len(cleaned_answer) < MinCleanLen /\ Len(raw_answer) > MinRawLen
        THEN Prefix(raw_answer, FallbackLen)
        ELSE cleaned_answer

\* (variant) the cited passages in reverse order
SourcesReversed(ds) ==
    [i \in 1..Len(ds) |->
        [chapter |-> Get(ds[Len(ds) + 1 - i].metadata, "chapter_title", TitleUnknown),
         type |-> Get(ds[Len(ds) + 1 - i].metadata, "type", TypeBody),
         content |-> ds[Len(ds) + 1 - i].page_content]]

\* the 'sources' of an assistant turn
SourcesOf(ds) ==
    [i \in 1..Len(ds) |->
        [chapter |-> Get(ds[i].metadata, "chapter_title", TitleUnknown),
         type |-> Get(ds[i].metadata, "type", TypeBody),
         content |-> ds[i].page_content]]

UserTurn(q) == [role |-> "user", content |-> q]

AnswerTurn(res) ==
    [role |-> "assistant",
     content |-> StoredContent(res.answer),
     sources |-> SourcesOf(res.sources)]

\* (variant) the apology stored under the role 'system'
ApologySystemTurn(e) == [role |-> "system", content |-> ApologyPrefix \o e]

ApologyTurn(e) == [role |-> "assistant", content |-> ApologyPrefix \o e]

\* (variant) insert(0, turn) instead of append(turn)
InsertFirst(history, turn) == <<turn>> \o history

\* st.session_state.messages.append(turn)
AppendTurn(history, turn) == Append(history, turn)

\* (variant) every bubble shows the stored content
RenderStored(history) ==
    [i \in 1..Len(history) |->
        [role |-> history[i].role, text |-> history[i].content]]

\* the history view: one bubble per turn, an assistant turn through clean_answer
Render(history) ==
    [i \in 1..Len(history) |->
        [role |-> history[i].role,
         text |-> IF history[i].role = "user"
                  THEN history[i].content
                  ELSE clean_answer(history[i].content)]]

\* export_text: 问：...\n\n for a user turn, 答：...\n\n for an assistant turn
RECURSIVE ExportText(_)
ExportText(history) ==
    IF history = <<>> THEN <<>>
    ELSE (IF Head(history).role = "user"
          THEN <<38382, 65306>> \o Head(history).content \o <<10, 10>>
          ELSE <<31572, 65306>> \o clean_answer(Head(history).content) \o <<10, 10>>)
         \o ExportText(Tail(history))

-----------------------------------------------------------------------------
(* The session's inputs: questions, search results, model responses        *)

\* n times the character 甲
Pad(n) == [i \in 1..n |-> 30002]

\* 问甲, 问乙
Questions == {<<38382, 30002>>, <<38382, 20057>>}

Doc(content, metadata) == [page_content |-> content, metadata |-> metadata]

\* what similarity_search(query, k=4) may return: nothing, or four passages
\* of which two share chapter 3 and one carries no metadata
SearchResult(n) ==
    IF n = 0 THEN <<>>
    ELSE << Doc(<<30002, 20057>>,
                [chapter |-> 3, chapter_title |-> <<31532, 19977, 22238>>,
                 type |-> TypeBody]),
            Doc(<<91, 33026, 35780, 93, 32, 19993>>,
                [chapter |-> 3, chapter_title |-> <<31532, 19977, 22238>>,
                 type |-> TypeComment]),
            Doc(<<19969>>, <<>>),
            Doc(<<25098>>,
                [chapter |-> 5, chapter_title |-> <<31532, 20116, 22238>>,
                 type |-> TypeBody]) >>

\* 【回答】甲
ShortAnswer == MarkerAnswer \o <<30002>>

\* texts the model may generate; around the fallback thresholds the cleaned
\* text is the part before 【结束】 and the raw text is the whole
Answers ==
    { ShortAnswer,
      Pad(MinCleanLen - 1) \o MarkerEnd \o Pad(MinRawLen - MinCleanLen - 3),
      Pad(MinCleanLen - 1) \o MarkerEnd \o Pad(MinRawLen - MinCleanLen - 2),
      Pad(MinCleanLen) \o MarkerEnd \o Pad(MinRawLen - MinCleanLen - 3),
      Pad(MinCleanLen - 1) \o MarkerEnd \o Pad(FallbackLen - MinCleanLen) }

\* self.llm(prompt)[0]['generated_text']: a text, or the prompt echoed before it
Responses(prompt) == Answers \cup {prompt \o ShortAnswer}

\* str(e) of a failing model call, of a failing similarity search
LlmErrorText == <<79, 79, 77>>
SearchErrorText == <<73, 79>>

-----------------------------------------------------------------------------
(* The parts of the state a specification does not use stay as they start  *)

CleanIdle ==
    /\ text = <<>>
    /\ once = <<>>
    /\ twice = <<>>
    /\ cstage = "raw"

RetrieveIdle ==
    /\ docs = <<>>
    /\ unique_docs = <<>>
    /\ rstage = "search"

CorpusIdle ==
    /\ tex_files = <<>>
    /\ parsed = 0
    /\ all_documents = <<>>
    /\ output_file = <<>>
    /\ estage = "parsing"
    /\ jsonl = <<>>
    /\ read = 0
    /\ documents = <<>>
    /\ lstage = "reading"

PromptIdle ==
    /\ gen_docs = <<>>
    /\ gen_query = <<>>
    /\ rag_template = RagTemplate
    /\ gen_context = <<>>
    /\ gen_prompt = <<>>
    /\ gstage = "retrieved"

-----------------------------------------------------------------------------
(* Spec: the session                                                       *)

AppIdle ==
    /\ messages = <<>>
    /\ pc = "idle"
    /\ user_input = <<>>
    /\ result = <<>>
    /\ shown = <<>>
    /\ export_text = <<>>

Init == AppIdle /\ CleanIdle /\ RetrieveIdle /\ CorpusIdle /\ PromptIdle

\* a run whose form was submitted with a question: the history is drawn, the
\* user turn appended, and the run is about to call rag.generate
Submit ==
    /\ pc = "idle"
    /\ Len(messages) < 2 * MaxExchanges
    /\ \E q \in Questions :
          /\ user_input' = q
          /\ messages' = AppendTurn(messages, UserTurn(q))
    /\ shown' = Render(messages)
    /\ result' = <<>>
    /\ export_text' = <<>>
    /\ pc' = "generating"
    /\ UNCHANGED <<cleanVars, retrieveVars, corpusVars, promptVars>>

\* a run whose form was submitted empty, or any other widget event: the
\* history is drawn and nothing else happens
Rerun ==
    /\ pc = "idle"
    /\ shown' = Render(messages)
    /\ export_text' = <<>>
    /\ UNCHANGED <<messages, user_input, result, pc, cleanVars, retrieveVars,
                   corpusVars, promptVars>>

\* generate returns an answer: the assistant turn is appended and st.rerun()
\* draws the history again (its exception is no Exception and is not caught)
GenerateOk ==
    /\ pc = "generating"
    /\ \E n \in 0..1 :
          \E r \in Responses(BuildPrompt(
                       BuildContext(retrieve(SearchResult(n))), user_input)) :
              result' = GenerateAnswer(user_input, SearchResult(n), r)
    /\ messages' = AppendTurn(messages, AnswerTurn(result'))
    /\ shown' = Render(messages')
    /\ user_input' = <<>>
    /\ pc' = "idle"
    /\ UNCHANGED <<export_text, cleanVars, retrieveVars,
                   corpusVars, promptVars>>

\* the model call raises: generate returns {"error": ...}, result['answer']
\* raises KeyError, and the except branch appends the apology
GenerateLlmError ==
    /\ pc = "generating"
    /\ result' = GenerateError(LlmErrorText)
    /\ messages' = AppendTurn(messages, ApologyTurn(KeyErrorAnswer))
    /\ user_input' = <<>>
    /\ pc' = "idle"
    /\ UNCHANGED <<shown, export_text, cleanVars, retrieveVars,
                   corpusVars, promptVars>>

\* similarity_search raises: generate lets it through and the except branch
\* appends the apology
GenerateSearchError ==
    /\ pc = "generating"
    /\ messages' = AppendTurn(messages, ApologyTurn(SearchErrorText))
    /\ user_input' = <<>>
    /\ pc' = "idle"
    /\ UNCHANGED <<result, shown, export_text, cleanVars, retrieveVars,
                   corpusVars, promptVars>>

\* the clear button: the history is replaced by [] and st.rerun() draws it
Clear ==
    /\ pc = "idle"
    /\ messages' = <<>>
    /\ shown' = <<>>
    /\ export_text' = <<>>
    /\ UNCHANGED <<user_input, result, pc, cleanVars, retrieveVars,
                   corpusVars, promptVars>>

\* the export button: the history is drawn and, when it is not empty, the
\* download is offered
Export ==
    /\ pc = "idle"
    /\ shown' = Render(messages)
    /\ export_text' = IF messages # <<>> THEN ExportText(messages) ELSE <<>>
    /\ UNCHANGED <<messages, user_input, result, pc, cleanVars, retrieveVars,
                   corpusVars, promptVars>>

Next ==
    \/ Submit
    \/ Rerun
    \/ GenerateOk
    \/ GenerateLlmError
    \/ GenerateSearchError
    \/ Clear
    \/ Export

Spec == Init /\ [][Next]_vars

-----------------------------------------------------------------------------
(* Raw texts under test: concatenations of at most MaxTokens fragments     *)

Tokens ==
    { <<30002>>,                 \* 甲, ordinary text
      <<10>>,                    \* a newline
      <<32, 10>>,                \* a space and a newline
      MarkerAnswer,              \* 【回答】
      MarkerEnd,                 \* 【结束】
      <<12304, 22238>>,          \* 【回, the head of 【回答】
      <<31572, 12305>>,          \* 答】, the tail of 【回答】
      MarkerExpert,              \* 专家解读：
      SuffixAbove,               \* 以上
      closing_phrases[3] }       \* 希望您满意。

RECURSIVE Concat(_)
Concat(ts) == IF ts = <<>> THEN <<>> ELSE Head(ts) \o Concat(Tail(ts))

RawTexts ==
    {Concat(ts) : ts \in UNION {[1..n -> Tokens] : n \in 0..MaxTokens}}

-----------------------------------------------------------------------------
(* SpecClean: clean_answer applied to a raw text, then to its own result   *)

InitClean ==
    /\ RetrieveIdle
    /\ AppIdle
    /\ CorpusIdle
    /\ PromptIdle
    /\ text \in RawTexts
    /\ once = <<>>
    /\ twice = <<>>
    /\ cstage = "raw"

Clean ==
    /\ cstage = "raw"
    /\ once' = clean_answer(text)
    /\ cstage' = "once"
    /\ UNCHANGED <<text, twice, retrieveVars, appVars, corpusVars, promptVars>>

CleanAgain ==
    /\ cstage = "once"
    /\ twice' = clean_answer(once)
    /\ cstage' = "twice"
    /\ UNCHANGED <<text, once, retrieveVars, appVars, corpusVars, promptVars>>

NextClean == Clean \/ CleanAgain

SpecClean == InitClean /\ [][NextClean]_vars

-----------------------------------------------------------------------------
(* Claims about clean_answer, checked under SpecClean                      *)

\* C3: after clean_answer the result holds none of the structural markers
\* (【回答】, 【结束】, 专家解读：, 【任务】, 【检索资料】, 【用户问题】, 【红学分析】)
\* as a substring.
C3_ResultHasNoMarker ==
    cstage # "raw" => \A k \in 1..Len(markers) : ~Contains(once, markers[k])

\* C4: clean_answer is idempotent: cleaning the cleaned text changes nothing.
C4_Idempotent == cstage = "twice" => twice = once

\* the text before the first 【结束】
BeforeEnd(s) == Prefix(s, Index(s, MarkerEnd) - 1)

\* the text after the first 【结束】
AfterEnd(s) == SubSeq(s, Index(s, MarkerEnd) + Len(MarkerEnd), Len(s))

\* C5: when the raw text holds 【结束】, the result is the result of cleaning
\* the text before the first 【结束】 alone: nothing after it reaches the result.
C5_OnlyTextBeforeEnd ==
    (cstage # "raw" /\ Contains(text, MarkerEnd))
        => once = clean_answer(BeforeEnd(text))

\* C5 witness: a cleaned text whose raw text had ordinary text on both sides
\* of its first 【结束】.
C5_Witness ==
    /\ cstage = "once"
    /\ Contains(text, MarkerEnd)
    /\ Contains(AfterEnd(text), <<30002>>)
    /\ once = <<30002>>

\* number of 【回答】 in the text left after the end-marker truncation
AnswerCount(s) == Cardinality(Occurrences(TruncateAtEnd(s), MarkerAnswer))

\* the text after the last 【回答】 of the truncated text
AfterLastAnswer(s) ==
    LET t == TruncateAtEnd(s)
    IN  SubSeq(t, Max(Occurrences(t, MarkerAnswer)) + Len(MarkerAnswer), Len(t))

\* C6: with more than one 【回答】 the text before the last one is discarded;
\* with exactly one 【回答】 only the marker is removed and the text before it
\* is kept (the result is that of the later steps on the whole truncated text).
C6_AnswerMarkerRule ==
    cstage # "raw" =>
        /\ AnswerCount(text) > 1
              => once = CleanAfterAnswerStep(Strip(AfterLastAnswer(text)))
        /\ AnswerCount(text) = 1
              => once = CleanAfterAnswerStep(TruncateAtEnd(text))

\* C7: the cleaned text is never longer than the raw text (nor the second
\* cleaning longer than the first).
C7_NeverLonger ==
    /\ cstage # "raw" => Len(once) <= Len(text)
    /\ cstage = "twice" => Len(twice) <= Len(once)

\* C7 witness: a blank-line run inside the text was collapsed to one blank
\* line and the result is shorter than the raw text.
C7_Witness ==
    /\ cstage = "once"
    /\ Contains(text, <<10, 32, 10>>)
    /\ Contains(once, <<30002, 10, 10, 30002>>)
    /\ Len(once) < Len(text)

-----------------------------------------------------------------------------
(* SpecRetrieve: retrieve applied to a ranked candidate list               *)

\* metadata a candidate may carry: none, or a chapter number (0 is the
\* chapter extract_chapter_info gives a file it cannot number)
MetaChoices ==
    {<<>>} \cup {[chapter |-> c] : c \in {0, 3, 5, 8, 12}}

\* the candidate at rank i holds the digit i as its content
Candidates(ms) ==
    [i \in 1..Len(ms) |-> [page_content |-> <<48 + i>>, metadata |-> ms[i]]]

InitRetrieve ==
    /\ CleanIdle
    /\ AppIdle
    /\ CorpusIdle
    /\ PromptIdle
    /\ \E n \in 0..MaxCands :
          \E ms \in [1..n -> MetaChoices] : docs = Candidates(ms)
    /\ unique_docs = <<>>
    /\ rstage = "search"

Retrieve ==
    /\ rstage = "search"
    /\ unique_docs' = retrieve(docs)
    /\ rstage' = "done"
    /\ UNCHANGED <<docs, cleanVars, appVars, corpusVars, promptVars>>

NextRetrieve == Retrieve

SpecRetrieve == InitRetrieve /\ [][NextRetrieve]_vars

\* the chapter number retrieve reads from a passage
ChapterOf(d) == Get(d.metadata, "chapter", 0)

\* the chapter numbers of a list of passages
Chapters(ds) == [i \in 1..Len(ds) |-> ChapterOf(ds[i])]

\* C1: the list retrieve returns holds no two passages of the same chapter
\* number, has at most 3 passages and at most as many as there were candidates.
C1_DistinctChaptersAtMostThree ==
    rstage = "done" =>
        /\ \A i, j \in 1..Len(unique_docs) :
               i # j => ChapterOf(unique_docs[i]) # ChapterOf(unique_docs[j])
        /\ Len(unique_docs) <= 3
        /\ Len(unique_docs) <= Len(docs)

\* C1 witness: six candidates, one without chapter metadata and two of one
\* chapter, cut to three passages.
C1_Witness ==
    /\ rstage = "done"
    /\ Len(docs) = 6
    /\ \E i \in 1..Len(docs) : "chapter" \notin DOMAIN docs[i].metadata
    /\ \E i, j \in 1..Len(docs) : i # j /\ ChapterOf(docs[i]) = ChapterOf(docs[j])
    /\ Len(unique_docs) = 3

\* the ranks of the candidates that are the first of their chapter
FirstOfChapter(ds) ==
    {i \in 1..Len(ds) : \A j \in 1..(i - 1) : ChapterOf(ds[j]) # ChapterOf(ds[i])}

\* the k-th smallest element of a set of ranks
Nth(S, k) == CHOOSE i \in S : Cardinality({j \in S : j <= i}) = k

\* C2: retrieve returns exactly the candidates that are the first of their
\* chapter, in rank order, cut to the first 3; chapters [3, 3, 5, 5, 8, 12]
\* give chapters [3, 5, 8].
C2_FirstOccurrencesInRankOrder ==
    rstage = "done" =>
        LET first == FirstOfChapter(docs)
            n == IF Cardinality(first) < 3 THEN Cardinality(first) ELSE 3
        IN  /\ Len(unique_docs) = n
            /\ \A k \in 1..n : unique_docs[k] = docs[Nth(first, k)]
            /\ Chapters(docs) = <<3, 3, 5, 5, 8, 12>>
                  => Chapters(unique_docs) = <<3, 5, 8>>

\* C2 witness: the candidates of chapters [3, 3, 5, 5, 8, 12] were filtered.
C2_Witness ==
    /\ rstage = "done"
    /\ Chapters(docs) = <<3, 3, 5, 5, 8, 12>>
    /\ Chapters(unique_docs) = <<3, 5, 8>>

-----------------------------------------------------------------------------
(* Claims about the session, checked under Spec                            *)

\* the turn a step has put at the end of the history
NewTurn == messages'[Len(messages')]

\* a step that only adds turns at the end of the history
Extends ==
    /\ Len(messages') >= Len(messages)
    /\ SubSeq(messages', 1, Len(messages)) = messages

\* C8: on a successful generation the stored content is the first 500
\* characters of the raw answer (all of it if shorter) when the cleaned
\* answer has fewer than 50 characters and the raw answer more than 100, and
\* the cleaned answer otherwise (also at cleaned length 50 or raw length 100).
C8_StoredContentRule ==
    [][ (pc = "generating" /\ "answer" \in DOMAIN result') =>
            LET raw == result'.answer
                cleaned == clean_answer(raw)
                fallback == Len(cleaned) < 50 /\ Len(raw) > 100
            IN  /\ fallback =>
                      NewTurn.content =
                          IF Len(raw) <= 500 THEN raw ELSE SubSeq(raw, 1, 500)
                /\ ~fallback => NewTurn.content = cleaned
                /\ Len(cleaned) = 50 => NewTurn.content = cleaned
                /\ Len(raw) = 100 => NewTurn.content = cleaned ]_vars

\* C8 witness: a raw answer of more than 500 characters whose cleaned text
\* has fewer than 50 was stored as its first 500 characters.
C8_Witness ==
    /\ pc = "idle"
    /\ "answer" \in DOMAIN result
    /\ messages # <<>>
    /\ Len(result.answer) > 500
    /\ Len(clean_answer(result.answer)) < 50
    /\ messages[Len(messages)].content = SubSeq(result.answer, 1, 500)

\* C9: a non-empty submission appends the user turn before generation is
\* attempted; the generation then appends exactly one assistant turn: with
\* the answer and the passages retrieval returned (chapter title, type,
\* content, in retrieval order) on success, with an apology and no passages
\* on failure; either way the run ends where the next submission is taken.
C9_TurnsPerSubmission ==
    /\ [][ (pc = "idle" /\ pc' = "generating") =>
              /\ user_input' # <<>>
              /\ messages' =
                     Append(messages, [role |-> "user", content |-> user_input']) ]_vars
    /\ [][ pc = "generating" =>
              /\ pc' = "idle"
              /\ Len(messages') = Len(messages) + 1
              /\ Extends
              /\ NewTurn.role = "assistant"
              /\ IF "answer" \in DOMAIN result'
                 THEN /\ NewTurn.content \in
                            {clean_answer(result'.answer),
                             Prefix(result'.answer, 500)}
                      /\ "sources" \in DOMAIN NewTurn
                      /\ Len(NewTurn.sources) = Len(result'.sources)
                      /\ \A i \in 1..Len(result'.sources) :
                            LET d == result'.sources[i]
                            IN  NewTurn.sources[i] =
                                  [chapter |-> IF "chapter_title" \in DOMAIN d.metadata
                                               THEN d.metadata.chapter_title
                                               ELSE TitleUnknown,
                                   type |-> IF "type" \in DOMAIN d.metadata
                                            THEN d.metadata.type
                                            ELSE TypeBody,
                                   content |-> d.page_content]
                 ELSE /\ "sources" \notin DOMAIN NewTurn
                      /\ Prefix(NewTurn.content, Len(ApologyPrefix)) = ApologyPrefix ]_vars

\* C9 witness: a question answered with an apology, and after it a further
\* question answered with three cited passages.
C9_Witness ==
    /\ pc = "idle"
    /\ Len(messages) = 4
    /\ messages[1].role = "user"
    /\ "sources" \notin DOMAIN messages[2]
    /\ Prefix(messages[2].content, Len(ApologyPrefix)) = ApologyPrefix
    /\ messages[3].role = "user"
    /\ "sources" \in DOMAIN messages[4]
    /\ Len(messages[4].sources) = 3

\* C10: the history changes only by turns appended at its end, or by Clear
\* replacing it with the empty list (which Clear does from every state it is
\* pressed in); no turn is modified, removed or reordered otherwise.
C10_AppendOrClearOnly ==
    /\ [][Extends \/ Clear]_vars
    /\ [][Clear => messages' = <<>>]_vars
    /\ [](pc = "idle" => ENABLED Clear)

\* C10 witness: an answer was appended to the history and the history was
\* cleared afterwards.
C10_Witness ==
    /\ pc = "idle"
    /\ "answer" \in DOMAIN result
    /\ messages = <<>>
    /\ shown = <<>>

-----------------------------------------------------------------------------
(* extract_honglou (src/step1_extract.py) and HongLouVectorizer.load_data  *)
(* (src/step2_vectorize.py)                                                *)
(* A source file is given by whether open/read can decode it and by the    *)
(* records parse_single_file builds from its text; a line of the JSONL     *)
(* file by whether it is JSON text and by the value that text denotes.     *)

\* number of *.tex files in the folder
MaxFiles == 2

\* number of lines in the JSONL file
MaxLines == 3

\* one record of parse_single_file: {"id", "content", "metadata"}
Record(id, content, type) ==
    [id |-> id,
     content |-> content,
     metadata |-> [chapter |-> 3,
                   chapter_title |-> <<31532, 19977, 22238>>,       \* 第三回
                   type |-> type,
                   source_file |-> <<99, 51, 46, 116, 101, 120>>]]  \* c3.tex

\* 003-000, a paragraph of the text
RecordBody == Record(<<48, 48, 51, 45, 48, 48, 48>>, <<30002, 20057>>, TypeBody)

\* 003-z-000, a commentary
RecordComment ==
    Record(<<48, 48, 51, 45, 122, 45, 48, 48, 48>>, <<19993>>, TypeComment)

\* the files of the folder: one that is not UTF-8 (f.read() raises
\* UnicodeDecodeError), one that yields a paragraph and a commentary, one
\* whose paragraphs are all shorter than 20 characters
TexFileChoices ==
    { [utf8 |-> FALSE, records |-> <<>>],
      [utf8 |-> TRUE, records |-> <<RecordBody, RecordComment>>],
      [utf8 |-> TRUE, records |-> <<>>] }

\* parse_single_file(file_path) for a file that can be read
parse_single_file(file) == file.records

\* json.dumps(doc, ensure_ascii=False): a line of JSON text denoting doc
JsonDumps(doc) == [json |-> TRUE, value |-> doc]

\* a line that is no JSON text, such as one cut off in the middle
LineNotJson == [json |-> FALSE, value |-> <<>>]

\* the lines the JSONL file may hold
LineChoices ==
    { JsonDumps(RecordBody),
      JsonDumps(RecordComment),
      LineNotJson,
      JsonDumps([id |-> RecordBody.id, metadata |-> RecordBody.metadata]),
      JsonDumps([id |-> RecordBody.id, content |-> RecordBody.content]) }

\* the exception the body of load_data's loop raises on a line, "" for none:
\* json.loads, then data['content'], then data['metadata']['type']
LoadRaises(line) ==
    IF ~line.json THEN "JSONDecodeError"
    ELSE IF "content" \notin DOMAIN line.value THEN "KeyError"
    ELSE IF "metadata" \notin DOMAIN line.value THEN "KeyError"
    ELSE IF "type" \notin DOMAIN line.value.metadata THEN "KeyError"
    ELSE ""

\* '[脂评] '
CommentPrefix == <<91, 33026, 35780, 93, 32>>

\* the Document the body of load_data's loop builds from a line
LoadDocument(line) ==
    LET data == line.value
    IN  Doc(IF data.metadata.type = TypeComment
            THEN CommentPrefix \o data.content
            ELSE data.content,
            data.metadata)

InitCorpus ==
    /\ CleanIdle
    /\ RetrieveIdle
    /\ AppIdle
    /\ PromptIdle
    /\ \E n \in 0..MaxFiles :
          \E fs \in [1..n -> TexFileChoices] : tex_files = fs
    /\ parsed = 0
    /\ all_documents = <<>>
    /\ output_file = <<>>
    /\ estage = "parsing"
    /\ \E n \in 0..MaxLines :
          \E ls \in [1..n -> LineChoices] : jsonl = ls
    /\ read = 0
    /\ documents = <<>>
    /\ lstage = "reading"

\* one round of extract_honglou's loop on a file that can be read
ParseFile ==
    /\ estage = "parsing"
    /\ parsed < Len(tex_files)
    /\ tex_files[parsed + 1].utf8
    /\ all_documents' = all_documents \o parse_single_file(tex_files[parsed + 1])
    /\ parsed' = parsed + 1
    /\ UNCHANGED <<tex_files, output_file, estage, jsonl, read, documents,
                   lstage, cleanVars, retrieveVars, appVars, promptVars>>

\* the round on a file that cannot be read: parse_single_file raises, no
\* except clause is around it, and extract_honglou ends before its open(..., 'w')
ParseFileRaises ==
    /\ estage = "parsing"
    /\ parsed < Len(tex_files)
    /\ ~tex_files[parsed + 1].utf8
    /\ estage' = "raised"
    /\ UNCHANGED <<tex_files, parsed, all_documents, output_file, jsonl, read,
                   documents, lstage, cleanVars, retrieveVars, appVars,
                   promptVars>>

\* after the loop: every document is written as one line
WriteOutput ==
    /\ estage = "parsing"
    /\ parsed = Len(tex_files)
    /\ output_file' = [i \in 1..Len(all_documents) |-> JsonDumps(all_documents[i])]
    /\ estage' = "written"
    /\ UNCHANGED <<tex_files, parsed, all_documents, jsonl, read, documents,
                   lstage, cleanVars, retrieveVars, appVars, promptVars>>

\* one round of load_data's loop on a line it can build a Document from
ReadLine ==
    /\ lstage = "reading"
    /\ read < Len(jsonl)
    /\ LoadRaises(jsonl[read + 1]) = ""
    /\ documents' = Append(documents, LoadDocument(jsonl[read + 1]))
    /\ read' = read + 1
    /\ UNCHANGED <<tex_files, parsed, all_documents, output_file, estage,
                   jsonl, lstage, cleanVars, retrieveVars, appVars, promptVars>>

\* the round on any other line: the exception leaves the loop and load_data,
\* no except clause being around either
ReadLineRaises ==
    /\ lstage = "reading"
    /\ read < Len(jsonl)
    /\ LoadRaises(jsonl[read + 1]) # ""
    /\ lstage' = "raised"
    /\ UNCHANGED <<tex_files, parsed, all_documents, output_file, estage,
                   jsonl, read, documents, cleanVars, retrieveVars, appVars,
                   promptVars>>

\* after the loop: load_data returns documents
FinishLoad ==
    /\ lstage = "reading"
    /\ read = Len(jsonl)
    /\ lstage' = "loaded"
    /\ UNCHANGED <<tex_files, parsed, all_documents, output_file, estage,
                   jsonl, read, documents, cleanVars, retrieveVars, appVars,
                   promptVars>>

NextCorpus ==
    \/ ParseFile
    \/ ParseFileRaises
    \/ WriteOutput
    \/ ReadLine
    \/ ReadLineRaises
    \/ FinishLoad

SpecCorpus == InitCorpus /\ [][NextCorpus]_vars

\* a line the loader cannot use: no JSON text, or no content or metadata field
Malformed(line) ==
    \/ ~line.json
    \/ "content" \notin DOMAIN line.value
    \/ "metadata" \notin DOMAIN line.value

\* C11: a malformed record (a line that is no JSON or lacks content or
\* metadata, a source file that cannot be parsed) is skipped and the rest is
\* still processed: no extraction or loading run is aborted, a finished
\* loading run holds one document per well-formed line and a finished
\* extraction has written the records of every file that could be read.
C11_MalformedRecordSkipped ==
    /\ estage # "raised"
    /\ lstage # "raised"
    /\ lstage = "loaded" =>
          Len(documents) =
              Cardinality({i \in 1..Len(jsonl) : ~Malformed(jsonl[i])})
    /\ estage = "written" =>
          Len(output_file) =
              2 * Cardinality({i \in 1..Len(tex_files) :
                                  tex_files[i].records # <<>>})

-----------------------------------------------------------------------------
(* SpecPrompt: the prompt assembly of HongLouRAG.generate, applied to the  *)
(* passages retrieve returned and to a question                            *)

\* number of passages handed to the prompt assembly
MaxPassages == 3

\* 乙
Last == <<20057>>

\* passages: one of exactly 300 characters, one of 301, one without
\* metadata, one whose content holds a blank line and a format field
PassageChoices ==
    { Doc(Pad(ContextBudget - 1) \o Last,
          [chapter |-> 3, chapter_title |-> <<31532, 19977, 22238>>,
           type |-> TypeBody]),
      Doc(Pad(ContextBudget) \o Last,
          [chapter |-> 5, chapter_title |-> <<31532, 20116, 22238>>,
           type |-> TypeComment]),
      Doc(<<19969>>, <<>>),
      Doc(<<30002, 10, 10, 123, 113, 117, 101, 115, 116, 105, 111, 110, 125>>,
          [chapter |-> 8, chapter_title |-> <<31532, 20843, 22238>>]) }

\* questions: 问甲, and the text {context}
PromptQuestions ==
    {<<38382, 30002>>, <<123, 99, 111, 110, 116, 101, 120, 116, 125>>}

InitPrompt ==
    /\ CleanIdle
    /\ RetrieveIdle
    /\ AppIdle
    /\ CorpusIdle
    /\ \E n \in 0..MaxPassages :
          \E ds \in [1..n -> PassageChoices] : gen_docs = ds
    /\ gen_query \in PromptQuestions
    /\ rag_template = RagTemplate
    /\ gen_context = <<>>
    /\ gen_prompt = <<>>
    /\ gstage = "retrieved"

\* generate from the end of retrieve to the prompt: context_parts, context
\* and prompt are built; nothing is assigned to self or to a passage
AssemblePrompt ==
    /\ gstage = "retrieved"
    /\ gen_context' = BuildContext(gen_docs)
    /\ gen_prompt' = Format(rag_template, gen_context', gen_query)
    /\ gstage' = "prompted"
    /\ UNCHANGED <<gen_docs, gen_query, rag_template, cleanVars, retrieveVars,
                   appVars, corpusVars>>

NextPrompt == AssemblePrompt

SpecPrompt == InitPrompt /\ [][NextPrompt]_vars

\* the entry the claim describes for passage i: [i] title（type）：content...
EntryOf(i) ==
    LET d == gen_docs[i]
        title == IF "chapter_title" \in DOMAIN d.metadata
                 THEN d.metadata.chapter_title
                 ELSE <<117, 110, 107, 110, 111, 119, 110>>
        type == IF "type" \in DOMAIN d.metadata
                THEN d.metadata.type
                ELSE <<27491, 25991>>
        content == IF Len(d.page_content) <= 300
                   THEN d.page_content
                   ELSE SubSeq(d.page_content, 1, 300)
    IN  <<91, 48 + i, 93, 32>> \o title \o <<65288>> \o type
            \o <<65289, 65306>> \o content \o <<46, 46, 46>>

\* where entry i starts in the context block, two newlines after entry i - 1
RECURSIVE EntryStart(_)
EntryStart(i) ==
    IF i = 1 THEN 1 ELSE EntryStart(i - 1) + Len(EntryOf(i - 1)) + 2

\* C12: the context block holds one entry per passage, numbered 1..n in
\* retrieval order, of the form [i] chapter_title（type）：content... with at
\* most the first 300 characters of the passage, entries separated by one
\* blank line; the prompt is the fixed template with the context block and
\* the question in it verbatim; building it changes neither the passages,
\* nor the question, nor the engine's template.
C12_PromptAssembly ==
    /\ [](gstage = "prompted" =>
            LET n == Len(gen_docs)
            IN  /\ \A i \in 1..n :
                      SubSeq(gen_context, EntryStart(i),
                             EntryStart(i) + Len(EntryOf(i)) - 1) = EntryOf(i)
                /\ \A i \in 2..n :
                      SubSeq(gen_context, EntryStart(i) - 2, EntryStart(i) - 1)
                          = <<10, 10>>
                /\ Len(gen_context) =
                      IF n = 0 THEN 0 ELSE EntryStart(n) + Len(EntryOf(n)) - 1
                /\ gen_prompt =
                      TemplateHead \o gen_context \o TemplateMiddle
                          \o gen_query \o TemplateTail)
    /\ [][ /\ gen_docs' = gen_docs
           /\ gen_query' = gen_query
           /\ rag_template' = rag_template ]_vars

\* C12 witness: a prompt built from three passages, one of them longer than
\* 300 characters and one holding a blank line, for the question {context}.
C12_Witness ==
    /\ gstage = "prompted"
    /\ Len(gen_docs) = 3
    /\ Len(gen_docs[2].page_content) > 300
    /\ Contains(gen_docs[3].page_content, <<10, 10>>)
    /\ gen_query = <<123, 99, 111, 110, 116, 101, 120, 116, 125>>
    /\ Contains(gen_prompt, <<10, 10, 91, 51, 93, 32>>)
    /\ ~Contains(gen_prompt, Pad(300) \o Last)

-----------------------------------------------------------------------------
(* Further claims about the session, checked under Spec                    *)

\* C13: the roles of the history alternate user, assistant, user, ...,
\* starting with user; whenever no run is in the middle of a submission the
\* history has even length; a run whose form was submitted empty leaves the
\* history as it was.
C13_RolesAlternate ==
    /\ [](\A i \in 1..Len(messages) :
             messages[i].role = IF i % 2 = 1 THEN "user" ELSE "assistant")
    /\ [](pc = "idle" => Len(messages) % 2 = 0)
    /\ [][Rerun => messages' = messages]_vars

\* C13 witness: two exchanges, the first answered with cited passages and
\* the second with an apology.
C13_Witness ==
    /\ pc = "idle"
    /\ Len(messages) = 4
    /\ "sources" \in DOMAIN messages[2]
    /\ "sources" \notin DOMAIN messages[4]
    /\ messages[4].role = "assistant"

\* the line of the export for turn i of the history
ExportLine(i) ==
    (IF messages[i].role = "user"
     THEN <<38382, 65306>> \o messages[i].content
     ELSE <<31572, 65306>> \o clean_answer(messages[i].content)) \o <<10, 10>>

\* C14: every assistant bubble of the history view shows clean_answer of the
\* turn's stored content, and so does every answer line of the export; a
\* turn stored as the fallback prefix raw[:500] is shown as
\* clean_answer(raw[:500]).
C14_ShownThroughCleanAnswer ==
    /\ Len(shown) <= Len(messages)
    /\ \A i \in 1..Len(shown) :
          messages[i].role = "assistant"
              => shown[i].text = clean_answer(messages[i].content)
    /\ export_text # <<>>
          => export_text = Concat([i \in 1..Len(messages) |-> ExportLine(i)])
    /\ ( /\ "answer" \in DOMAIN result
         /\ messages # <<>>
         /\ Len(shown) = Len(messages)
         /\ Len(clean_answer(result.answer)) < 50
         /\ Len(result.answer) > 100 )
          => shown[Len(shown)].text = clean_answer(Prefix(result.answer, 500))

\* C14 witness: an answer stored as the first 500 characters of a longer raw
\* text is on the page and in the export, both times as the cleaned text,
\* which is not the stored content.
C14_Witness ==
    /\ "answer" \in DOMAIN result
    /\ Len(result.answer) > 500
    /\ Len(shown) = 2
    /\ Len(messages) = 2
    /\ messages[2].content = Prefix(result.answer, 500)
    /\ shown[2].text # messages[2].content
    /\ export_text # <<>>
    /\ Contains(export_text, <<31572, 65306>> \o shown[2].text \o <<10, 10>>)
    /\ ~Contains(export_text, MarkerEnd)

\* C15: when the model call raises inside generate, the apology appended for
\* that request holds the text of the exception the model call raised.
C15_ApologyCarriesModelError ==
    [][ (pc = "generating" /\ "error" \in DOMAIN result')
            => Contains(NewTurn.content, result'.error) ]_vars

=============================================================================
